---- MODULE Spec2Model ----
(***************************************************************************)
(* A model of streamjam: the in-memory PubSub broker (pubsub.py), the      *)
(* priority queues its subscribers drain (component.py) and the per        *)
(* connection SessionHandler (server.py).                                  *)
(*                                                                         *)
(* Python's None is the string NoneVal.  An optional list argument that    *)
(* the code reads as `x or []` is a set: None and [] are the same input,   *)
(* and a list with repeats is the same input as its set.                   *)
(***************************************************************************)
EXTENDS Integers, Sequences, FiniteSets, TLC

VARIABLES
    subscribers,         \* PubSub.subscribers: channel -> topic -> set of sid
    room_subscriptions,  \* PubSub.room_subscriptions: <<channel, room>> -> set of sid
    message_queues,      \* PubSub.message_queues: sid -> queue object
    event_count,         \* PubSub.event_count
    queues,              \* every asyncio.PriorityQueue object: its heap list
    received,            \* per queue object: the events its receive loop obtained
    last,                \* the last broker operation and its arguments
    sessions,            \* StreamJam.sessions: the identities that have a session
    connections,         \* SocketService.connections: identity -> connection
    ws,                  \* SessionHandler.ws: the connection's number and state, and
                         \* the calls of SocketService.disconnect made for it
    handling,            \* SessionHandler.handle is in its receive loop
    components,          \* SessionHandler.components: comp_id -> component object
    objs,                \* the Component objects constructed, by object number;
                         \* receiver is the task of __message_receiver
    msg_queue,           \* SessionHandler.msg_queue
    event_queue,         \* SessionHandler.event_queue
    event_handlers,      \* SessionHandler.event_handlers
    store_update_handlers, \* SessionHandler.store_update_handlers
    tasks,               \* SessionHandler.task_registry: the tasks not yet run
    next_req,            \* the number of the next exec-rpc request
    sender_task,         \* the session's $msg_sender task: running or dead
    slast,               \* the last session operation and its arguments
    service_configs,     \* StreamJam.service_configs: the names configured
    service_executors,   \* StreamJam.service_executors: name -> executor
    serve_pc,            \* where StreamJam.serve is
    calls,               \* the service calls made through method proxies
    dispatcher_task,     \* the session's $event_dispatcher task: running or dead
    update_runs,         \* the on_update handler runs that have started, in the
                         \* order they started, and whether they have returned
    adding,              \* the add_component call that waits in a hook
    old_loops,           \* the receive loops still running on connections that
                         \* a later connection of the session has replaced
    identities           \* SocketService.session_strategy, the SessionHandler.id
                         \* of every session, and the session that made each
                         \* component queue

brokerVars == <<subscribers, room_subscriptions, message_queues, event_count,
                queues, received, last>>

sessionVars == <<sessions, connections, ws, handling, components, objs, msg_queue,
                 event_queue, event_handlers, store_update_handlers, tasks,
                 next_req, sender_task, slast>>

overlapVars == <<update_runs, adding, old_loops, identities>>

serverVars == <<service_configs, service_executors, serve_pc, calls, dispatcher_task,
                overlapVars>>

vars == <<brokerVars, sessionVars, serverVars>>

----------------------------------------------------------------------------
(* Bounds and input universes *)

MaxEvents == 1
MaxQueued == 3

NoneVal == "None"

AllSids == {"s1", "s2", "s3"}
AllQueues == {1, 2, 3}
AllChannels == {"c1"}
AllTopics == {"t1", "t2"}
AllRooms == {"r1", "r2"}
Priorities == {1, 2, 3}

\* The queue object each subscriber creates for itself
\* (Component.__init__, Service.__init__).
OwnQueue(sid) ==
    CASE sid = "s1" -> 1
      [] sid = "s2" -> 2
      [] OTHER -> 3

EmptyFn == [x \in {} |-> {}]

----------------------------------------------------------------------------
(* defaultdict reads: a read of a missing key inserts the default *)

\* the value of self.subscribers[c][t], without the insertion
SubsOf(subs, c, t) ==
    IF c \in DOMAIN subs /\ t \in DOMAIN subs[c] THEN subs[c][t] ELSE {}

\* the topic keys of channel c
TopicKeys(subs, c) == IF c \in DOMAIN subs THEN DOMAIN subs[c] ELSE {}

\* self.subscribers[c][t] := S, inserting both keys when missing
WithTopic(subs, c, t, S) ==
    [k \in DOMAIN subs \cup {c} |->
        IF k = c
        THEN [u \in TopicKeys(subs, c) \cup {t} |->
                 IF u = t THEN S ELSE subs[c][u]]
        ELSE subs[k]]

\* sid added to every existing topic set of channel c; the channel key is
\* inserted by the read self.subscribers[c]
AddToTopics(subs, c, sid) ==
    [k \in DOMAIN subs \cup {c} |->
        IF k = c
        THEN [u \in TopicKeys(subs, c) |-> subs[c][u] \cup {sid}]
        ELSE subs[k]]

\* sid discarded from every existing topic set of channel c
DropFromTopics(subs, c, sid) ==
    [k \in DOMAIN subs \cup {c} |->
        IF k = c
        THEN [u \in TopicKeys(subs, c) |-> subs[c][u] \ {sid}]
        ELSE subs[k]]

\* the value of self.room_subscriptions[c, r], without the insertion
RoomMembers(rs, c, r) == IF <<c, r>> \in DOMAIN rs THEN rs[<<c, r>>] ELSE {}

\* self.room_subscriptions[c, r] := S
WithRoom(rs, c, r, S) ==
    [k \in DOMAIN rs \cup {<<c, r>>} |-> IF k = <<c, r>> THEN S ELSE rs[k]]

\* the reads self.room_subscriptions[c, r] for r in rooms insert missing keys
TouchRooms(rs, c, rooms) ==
    [k \in DOMAIN rs \cup {<<c, r>> : r \in rooms} |->
        IF k \in DOMAIN rs THEN rs[k] ELSE {}]

----------------------------------------------------------------------------
(* ServiceEvent and the priority queue *)

ServiceEvent(name, source, data, priority) ==
    [name |-> name, source |-> source, data |-> data, priority |-> priority]

\* ServiceEvent's order: by priority, lower first
EventLt(a, b) == a.priority < b.priority

\* heapq._siftdown(heap, startpos, pos) with newitem held aside
RECURSIVE SiftDown(_, _, _, _)
SiftDown(heap, startpos, pos, newitem) ==
    IF pos > startpos
    THEN LET parentpos == ((pos - 1) \div 2)
             parent == heap[parentpos + 1]
         IN  IF EventLt(newitem, parent)
             THEN SiftDown([heap EXCEPT ![pos + 1] = parent], startpos, parentpos, newitem)
             ELSE [heap EXCEPT ![pos + 1] = newitem]
    ELSE [heap EXCEPT ![pos + 1] = newitem]

\* heapq._siftup(heap, pos): the smaller child bubbles up to the leaf, then
\* newitem is sifted down from there
RECURSIVE SiftUpLoop(_, _, _, _)
SiftUpLoop(heap, startpos, pos, newitem) ==
    LET endpos == Len(heap)
        childpos == 2 * pos + 1
        rightpos == childpos + 1
        pick == IF rightpos < endpos /\ ~EventLt(heap[childpos + 1], heap[rightpos + 1])
                THEN rightpos ELSE childpos
    IN  IF childpos < endpos
        THEN SiftUpLoop([heap EXCEPT ![pos + 1] = heap[pick + 1]], startpos, pick, newitem)
        ELSE SiftDown(heap, startpos, pos, newitem)

\* a plain list append instead of a heap push
HeapPushAppend(heap, item) == Append(heap, item)

\* PriorityQueue._put: heapq.heappush(self._queue, item)
HeapPush(heap, item) == SiftDown(Append(heap, item), 0, Len(heap), item)

\* PriorityQueue._get: heapq.heappop(self._queue); the item returned
HeapTop(heap) == heap[1]

\* ... and the heap left behind
HeapPop(heap) ==
    LET lastelt == heap[Len(heap)]
        rest == SubSeq(heap, 1, Len(heap) - 1)
    IN  IF rest = <<>> THEN rest
        ELSE SiftUpLoop([rest EXCEPT ![1] = lastelt], 0, 0, lastelt)

RECURSIVE PushTimes(_, _, _)
PushTimes(heap, item, n) ==
    IF n = 0 THEN heap ELSE PushTimes(HeapPush(heap, item), item, n - 1)

----------------------------------------------------------------------------
(* PubSub *)

NoOp ==
    [op |-> "init", sid |-> NoneVal, channel |-> NoneVal, name |-> NoneVal,
     queue |-> 0, rooms |-> {}, recipients |-> {}, exclude |-> {},
     delivered |-> {}, no_queue |-> {}, raised |-> NoneVal]

Op(op, sid, channel, name) ==
    [NoOp EXCEPT !.op = op, !.sid = sid, !.channel = channel, !.name = name]

\* PubSub.__init__
BrokerInit ==
    /\ subscribers = EmptyFn
    /\ room_subscriptions = EmptyFn
    /\ message_queues = EmptyFn
    /\ event_count = 0
    /\ queues = [q \in AllQueues |-> <<>>]
    /\ received = [q \in AllQueues |-> <<>>]
    /\ last = NoOp

\* PubSub.register
Register(sid, queue) ==
    /\ message_queues' =
           [k \in DOMAIN message_queues \cup {sid} |->
               IF k = sid THEN queue ELSE message_queues[k]]
    /\ last' = [Op("register", sid, NoneVal, NoneVal) EXCEPT !.queue = queue]
    /\ UNCHANGED <<subscribers, room_subscriptions, event_count, queues, received, sessionVars, serverVars>>

\* the subscriber set of a topic after subscribe(sid, ...)
SubscribeSet(old, sid) == old \cup {sid}

\* PubSub.subscribe
Subscribe(sid, channel, topic) ==
    /\ subscribers' = WithTopic(subscribers, channel, topic,
                                SubscribeSet(SubsOf(subscribers, channel, topic), sid))
    /\ last' = Op("subscribe", sid, channel, topic)
    /\ UNCHANGED <<room_subscriptions, message_queues, event_count, queues, received, sessionVars, serverVars>>

\* PubSub.unsubscribe
Unsubscribe(sid, channel, topic) ==
    /\ subscribers' = WithTopic(subscribers, channel, topic,
                                SubsOf(subscribers, channel, topic) \ {sid})
    /\ last' = Op("unsubscribe", sid, channel, topic)
    /\ UNCHANGED <<room_subscriptions, message_queues, event_count, queues, received, sessionVars, serverVars>>

\* publish, lines 86-97: recipients, plus the members of the rooms, minus exclude
AllRecipients(rs, channel, rooms, recipients, exclude) ==
    (recipients \cup UNION {RoomMembers(rs, channel, r) : r \in rooms}) \ exclude

\* the queue check left out
HasQueueAlways(mq, sid) == TRUE

\* publish, line 122: the subscriber has a queue
HasQueue(mq, sid) == sid \in DOMAIN mq

\* publish, lines 111-125: the subscribers the loop does not skip
PublishTargets(subs, rs, mq, channel, name, rooms, recipients, exclude) ==
    LET all_recipients == AllRecipients(rs, channel, rooms, recipients, exclude)
    IN  {sid \in SubsOf(subs, channel, name) :
            /\ sid \notin exclude
            /\ ~(all_recipients # {} /\ sid \notin all_recipients)
            /\ HasQueue(mq, sid)}

\* publish, lines 111-125: the subscribers skipped for having no queue
SkippedNoQueue(subs, rs, mq, channel, name, rooms, recipients, exclude) ==
    LET all_recipients == AllRecipients(rs, channel, rooms, recipients, exclude)
    IN  {sid \in SubsOf(subs, channel, name) :
            /\ sid \notin exclude
            /\ ~(all_recipients # {} /\ sid \notin all_recipients)
            /\ ~HasQueue(mq, sid)}

\* PubSub.publish; the event's data is the number of the publish
Publish(channel, name, source, priority, rooms, recipients, exclude) ==
    LET event == ServiceEvent(name, source, event_count + 1, priority)
        targets == PublishTargets(subscribers, room_subscriptions, message_queues,
                                  channel, name, rooms, recipients, exclude)
        \* self.message_queues[sid] of a sid without a queue raises KeyError
        missing == {sid \in targets : sid \notin DOMAIN message_queues}
        puts(q) == Cardinality({sid \in targets \ missing : message_queues[sid] = q})
    IN  /\ event_count' = event_count + 1
        /\ room_subscriptions' = TouchRooms(room_subscriptions, channel, rooms)
        /\ subscribers' = WithTopic(subscribers, channel, name,
                                    SubsOf(subscribers, channel, name))
        /\ queues' = [q \in DOMAIN queues |-> PushTimes(queues[q], event, puts(q))]
        /\ last' = [op |-> "publish", sid |-> NoneVal, channel |-> channel,
                    name |-> name, queue |-> 0, rooms |-> rooms, recipients |-> recipients,
                    exclude |-> exclude, delivered |-> targets \ missing,
                    no_queue |-> SkippedNoQueue(subscribers, room_subscriptions,
                                                message_queues, channel, name,
                                                rooms, recipients, exclude),
                    raised |-> IF missing = {} THEN NoneVal ELSE "KeyError"]
        /\ UNCHANGED <<message_queues, received, sessionVars, serverVars>>

\* PubSub.join_room
JoinRoom(sid, channel, room) ==
    /\ room_subscriptions' = WithRoom(room_subscriptions, channel, room,
                                      RoomMembers(room_subscriptions, channel, room) \cup {sid})
    /\ subscribers' = AddToTopics(subscribers, channel, sid)
    /\ last' = Op("join_room", sid, channel, room)
    /\ UNCHANGED <<message_queues, event_count, queues, received, sessionVars, serverVars>>

\* PubSub.leave_room
LeaveRoom(sid, channel, room) ==
    /\ room_subscriptions' = WithRoom(room_subscriptions, channel, room,
                                      RoomMembers(room_subscriptions, channel, room) \ {sid})
    /\ subscribers' = DropFromTopics(subscribers, channel, sid)
    /\ last' = Op("leave_room", sid, channel, room)
    /\ UNCHANGED <<message_queues, event_count, queues, received, sessionVars, serverVars>>

\* quit, lines 144-156: the channels whose topic sets are cleaned
QuitChannels(rs, channel) ==
    IF channel = NoneVal THEN {k[1] : k \in DOMAIN rs} ELSE {channel}

\* quit, lines 144-156: the room keys that are cleaned
QuitRooms(rs, channel) ==
    IF channel = NoneVal THEN DOMAIN rs ELSE {k \in DOMAIN rs : k[1] = channel}

\* the room sets without sid, a room left empty being deleted in the loop
QuitRoomSubsPruned(rs, sid, channel) ==
    [k \in {x \in DOMAIN rs : x \notin QuitRooms(rs, channel) \/ rs[x] \ {sid} # {}} |->
        IF k \in QuitRooms(rs, channel) THEN rs[k] \ {sid} ELSE rs[k]]

\* quit, lines 144-156: the room sets without sid
QuitRoomSubs(rs, sid, channel) ==
    [k \in DOMAIN rs |-> IF k \in QuitRooms(rs, channel) THEN rs[k] \ {sid} ELSE rs[k]]

\* quit, lines 144-156: the topic sets without sid
QuitSubscribers(subs, rs, sid, channel) ==
    LET cs == QuitChannels(rs, channel)
    IN  [c \in DOMAIN subs \cup cs |->
            IF c \in cs
            THEN [t \in TopicKeys(subs, c) |-> subs[c][t] \ {sid}]
            ELSE subs[c]]

\* quit, lines 158-160: the queue registration removed
QuitQueues(mq, sid) == [k \in DOMAIN mq \ {sid} |-> mq[k]]

\* PubSub.quit
Quit(sid, channel) ==
    /\ room_subscriptions' = QuitRoomSubs(room_subscriptions, sid, channel)
    /\ subscribers' = QuitSubscribers(subscribers, room_subscriptions, sid, channel)
    /\ message_queues' = QuitQueues(message_queues, sid)
    /\ last' = Op("quit", sid, channel, NoneVal)
    /\ UNCHANGED <<event_count, queues, received, sessionVars, serverVars>>

\* one turn of a subscriber's receive loop (Component.__message_receiver,
\* Service.__message_receiver): take the next event off the queue
Receive(queue) ==
    /\ queues[queue] # <<>>
    /\ received' = [received EXCEPT ![queue] = Append(@, HeapTop(queues[queue]))]
    /\ queues' = [queues EXCEPT ![queue] = HeapPop(@)]
    /\ last' = [Op("receive", NoneVal, NoneVal, NoneVal) EXCEPT !.queue = queue]
    /\ UNCHANGED <<subscribers, room_subscriptions, message_queues, event_count, sessionVars, serverVars>>

----------------------------------------------------------------------------
(* Component classes of a project, and the messages of a session *)

MaxConns == 2
MaxObjects == 2
MaxRpcs == 1
MaxTasks == 1
MaxHandlerTasks == 2
MaxCalls == 2
MaxRuns == 2

\* None where the other values are numbers
NoneInt == 0 - 1

\* ws.request.path of the connections, which is SessionHandler.id
SessionId == "/app"

\* f'{self.id}/{component.id}'
ComponentSid(comp_id) ==
    CASE comp_id = "c1" -> "/app/c1"
      [] comp_id = "c2" -> "/app/c2"
      [] OTHER -> "/app/?"

\* the project's component classes (StreamJam.component_map): a Counter with a
\* property count and an RPC increment (self.count += 1), and a Slider with a
\* property value, an RPC reset (self.value = 0) and an on_update('value')
\* handler that clamps what the client sets; a Chat whose class attribute
\* chat is a ServiceProxy (services), and a Feed with a handler decorated by
\* the on_event of a module-level proxy (listens: the channel and topic)
ComponentMap ==
    [Counter |-> [prop |-> "count", default |-> 0, rpc |-> "increment",
                  on_update |-> FALSE, services |-> {}, listens |-> {}],
     Slider  |-> [prop |-> "value", default |-> 0, rpc |-> "reset",
                  on_update |-> TRUE, services |-> {}, listens |-> {}],
     Chat    |-> [prop |-> "unread", default |-> 0, rpc |-> "read",
                  on_update |-> FALSE, services |-> {"chat"}, listens |-> {}],
     Feed    |-> [prop |-> "ticks", default |-> 0, rpc |-> "clear",
                  on_update |-> FALSE, services |-> {},
                  listens |-> {<<"$Service/feed", "tick">>}]]

\* the Slider's on_update handler
UpdateHandler(value) == IF value > 1 THEN 1 ELSE value

\* d[k] = v on a dict
SetKey(d, k, v) == [x \in DOMAIN d \cup {k} |-> IF x = k THEN v ELSE d[x]]

\* Message(topic, content, req_id); state holds the app-state mapping
\* (comp_id -> the component whose __state__ dict the payload refers to)
Message(topic, content, req_id, state) ==
    [topic |-> topic, content |-> content, req_id |-> req_id, state |-> state]

\* the property getter: the state's value, or the class default
Getter(obj, name) ==
    IF name \in DOMAIN obj.state THEN obj.state[name]
    ELSE ComponentMap[obj.cls].default

\* the property setter, line 134: self.__state__[name] = value
SetterState(o, oid, name, value) ==
    [o EXCEPT ![oid].state = SetKey(@, name, value)]

\* the write that tells the session nothing
SetterSilent(mq, comp_id, name, value) == mq

\* the property setter, line 135: session.update_store -> send_msg
SetterMsgs(mq, comp_id, name, value) ==
    Append(mq, Message(<<"store-value", comp_id, name>>, value, NoneInt, EmptyFn))

\* the methods every Component has (on_destroy, on_connect, on_disconnect,
\* lines 291-298); none of them is decorated with Component.rpc
Hooks == {"on_destroy", "on_connect", "on_disconnect"}

\* Component.rpc: the method carries the attribute rpc
RpcFlagged(cls, name) == name = ComponentMap[cls].rpc

\* __exec_rpc__, lines 152-153: getattr(self, rpc_name, None) is callable
Callable(cls, name) == RpcFlagged(cls, name) \/ name \in Hooks

\* what the class's RPC method assigns to its property
RpcValue(obj) ==
    IF obj.cls = "Counter" THEN Getter(obj, "count") + 1 ELSE 0

----------------------------------------------------------------------------
(* SessionHandler, for one session identity *)

\* no property written
NoWrite == [oid |-> 0, prop |-> NoneVal]

\* no message handed to the transport
NoMsg == Message(<<"none">>, NoneInt, NoneInt, EmptyFn)

\* ran: the method an exec-rpc called; msg: the message msg_sender took;
\* invoked: the handlers the event dispatcher started
SNoOp == [op |-> "init", raised |-> NoneVal, wrote |-> NoWrite, ran |-> NoneVal,
          msg |-> NoMsg, invoked |-> <<>>]

SOp(op, raised) == [SNoOp EXCEPT !.op = op, !.raised = raised]

Task(kind, req_id, comp_id, name, value) ==
    [kind |-> kind, req_id |-> req_id, comp_id |-> comp_id, name |-> name,
     value |-> value]

\* StreamJam.__init__: no session yet; the fields are those a new
\* SessionHandler starts with
SessionInit ==
    /\ sessions = {}
    /\ connections = EmptyFn
    /\ ws = [id |-> 0, state |-> "none", disconnects |-> 0]
    /\ handling = FALSE
    /\ components = EmptyFn
    /\ objs = <<>>
    /\ msg_queue = <<>>
    /\ event_queue = <<>>
    /\ event_handlers = EmptyFn
    /\ store_update_handlers = EmptyFn
    /\ tasks = <<>>
    /\ next_req = 1
    /\ sender_task = "running"
    /\ slast = SNoOp

\* a snapshot that never shows a component
SendStateNone(mq, table) ==
    Append(mq, Message(<<"app-state">>, NoneInt, NoneInt, EmptyFn))

\* SessionHandler.send_state: the payload maps each id to the component's
\* __state__; an empty table gives the payload None (the empty mapping here)
SendState(mq, table) == Append(mq, Message(<<"app-state">>, NoneInt, NoneInt, table))

\* StreamJam.router for a connection on SessionId, up to the first wait of
\* handle for a message
Router ==
    /\ serve_pc.at = "serving"
    /\ ~handling
    /\ ws.id < MaxConns
    /\ connections' = SetKey(connections, SessionId, ws.id + 1)
    /\ sessions' = sessions \cup {SessionId}
    /\ ws' = [id |-> ws.id + 1, state |-> "open", disconnects |-> 0]
    /\ msg_queue' = SendState(msg_queue, components)
    /\ event_queue' = Append(event_queue, "$session_connect")
    /\ handling' = TRUE
    /\ slast' = SOp("connect", NoneVal)
    /\ UNCHANGED serverVars
    /\ UNCHANGED <<components, objs, event_handlers, store_update_handlers,
                   tasks, next_req, sender_task, brokerVars>>

\* an exit of the loop that queues nothing
ExitEventsNone(eq) == eq

\* handle, line 303: the finally clause queues the disconnect event
ExitEvents(eq) == Append(eq, "$session_disconnect")

\* handle, lines 300-306: an exception or the end of the iteration ends the
\* receive loop, the disconnect event is queued, SocketService.disconnect is
\* called for the connection (on_disconnect returns None, so the service's
\* connections stay as they are), the router returns and the connection
\* closes
HandleEnd(raised) ==
    /\ IF raised = NoneVal
       THEN UNCHANGED <<ws, handling, event_queue>>
       ELSE /\ event_queue' = ExitEvents(event_queue)
            /\ handling' = FALSE
            /\ ws' = [ws EXCEPT !.state = "closed", !.disconnects = @ + 1]
    /\ UNCHANGED <<sessions, connections>>

\* session.event_handlers[event].append(handler)
RegisterEventHandler(eh, event, handler) ==
    SetKey(eh, event, Append(IF event \in DOMAIN eh THEN eh[event] ELSE <<>>, handler))

\* add_component, line 87: the parent is looked up after the insertion
ParentFound(table, comp_id, oid, parent_id) ==
    parent_id \in DOMAIN SetKey(table, comp_id, oid)

\* _register_handlers, lines 250-257: a subscription for every handler of a
\* service event
RECURSIVE SubscribeAll(_, _, _)
SubscribeAll(subs, sid, listens) ==
    IF listens = {} THEN subs
    ELSE LET l == CHOOSE x \in listens : TRUE
         IN  SubscribeAll(WithTopic(subs, l[1], l[2],
                                    SubscribeSet(SubsOf(subs, l[1], l[2]), sid)),
                          sid, listens \ {l})

\* the add-component message: SessionHandler.add_component
HandleAddComponent(comp_id, parent_id, comp_type, props) ==
    LET known == comp_type \in DOMAIN ComponentMap
        oid == Len(objs) + 1
        table == SetKey(components, comp_id, oid)
        found == ParentFound(components, comp_id, oid, parent_id)
        raised == IF known /\ found THEN NoneVal ELSE "KeyError"
        obj == [id |-> comp_id, cls |-> comp_type, parent_id |-> parent_id,
                state |-> props, children |-> <<>>, receiver |-> "running"]
    IN  /\ handling
        /\ adding.at = "none"
        /\ known => Len(objs) < MaxObjects
        /\ IF known
           THEN /\ event_handlers' =
                       RegisterEventHandler(
                           RegisterEventHandler(event_handlers, "$session_connect",
                                                <<oid, "on_connect">>),
                           "$session_disconnect", <<oid, "on_disconnect">>)
                /\ store_update_handlers' =
                       IF ComponentMap[comp_type].on_update
                       THEN SetKey(store_update_handlers,
                                   <<comp_id, ComponentMap[comp_type].prop>>, oid)
                       ELSE store_update_handlers
                /\ subscribers' = SubscribeAll(subscribers, ComponentSid(comp_id),
                                               ComponentMap[comp_type].listens)
                /\ message_queues' = SetKey(message_queues, ComponentSid(comp_id), oid)
                /\ last' = [Op("register", ComponentSid(comp_id), NoneVal, NoneVal)
                               EXCEPT !.queue = oid]
                /\ components' = table
                /\ objs' = IF found
                           THEN [Append(objs, obj) EXCEPT
                                    ![table[parent_id]].children = Append(@, oid)]
                           ELSE Append(objs, obj)
           ELSE UNCHANGED <<event_handlers, store_update_handlers, subscribers,
                            message_queues, last, components, objs>>
        /\ HandleEnd(raised)
        /\ slast' = SOp("add-component", raised)
        /\ UNCHANGED serverVars
        /\ UNCHANGED <<msg_queue, tasks, next_req, sender_task, room_subscriptions,
                       event_count, queues, received>>

\* the store-set message: SessionHandler.set_store
HandleStoreSet(comp_id, store_name, value) ==
    LET handled == <<comp_id, store_name>> \in DOMAIN store_update_handlers
        raised == IF ~handled /\ comp_id \notin DOMAIN components
                  THEN "KeyError" ELSE NoneVal
    IN  /\ handling
        /\ adding.at = "none"
        /\ handled => Len(tasks) < MaxTasks
        /\ tasks' = IF handled
                    THEN Append(tasks, Task("update", NoneInt, comp_id, store_name, value))
                    ELSE tasks
        /\ objs' = IF ~handled /\ raised = NoneVal
                   THEN [objs EXCEPT ![components[comp_id]].state =
                                         SetKey(@, store_name, value)]
                   ELSE objs
        /\ HandleEnd(raised)
        /\ slast' = SOp("store-set", raised)
        /\ UNCHANGED serverVars
        /\ UNCHANGED <<components, msg_queue, event_handlers, store_update_handlers,
                       next_req, sender_task, brokerVars>>

\* the exec-rpc message: the call becomes a task
HandleExecRpc(comp_id, rpc_name) ==
    /\ handling
    /\ adding.at = "none"
    /\ next_req <= MaxRpcs
    /\ Len(tasks) < MaxTasks
    /\ tasks' = Append(tasks, Task("rpc", next_req, comp_id, rpc_name, NoneInt))
    /\ next_req' = next_req + 1
    /\ slast' = SOp("exec-rpc", NoneVal)
    /\ UNCHANGED serverVars
    /\ UNCHANGED <<sessions, connections, ws, handling, components, objs, msg_queue,
                   event_queue, event_handlers, store_update_handlers, sender_task,
                   brokerVars>>

\* the client closes the connection: the receive loop of handle ends
HandleClose ==
    /\ handling
    /\ adding.at = "none"
    /\ HandleEnd("ConnectionClosed")
    /\ slast' = SOp("close", NoneVal)
    /\ UNCHANGED serverVars
    /\ UNCHANGED <<components, objs, msg_queue, event_handlers,
                   store_update_handlers, tasks, next_req, sender_task, brokerVars>>

\* the client's value kept
StoredClientValue(value) == value

\* exec_update_store_handler, line 146: what is assigned is `await handler(value)`
StoredByHandler(value) == UpdateHandler(value)

\* SessionHandler.exec_update_store_handler, run as a task
RunUpdate(task) ==
    LET key == <<task.comp_id, task.name>>
        raised == IF key \notin DOMAIN store_update_handlers
                     \/ task.comp_id \notin DOMAIN components
                  THEN "KeyError" ELSE NoneVal
    IN  /\ objs' = IF raised = NoneVal
                   THEN [objs EXCEPT ![components[task.comp_id]].state =
                                         SetKey(@, task.name, StoredByHandler(task.value))]
                   ELSE objs
        /\ slast' = SOp("run-update", raised)
        /\ UNCHANGED <<msg_queue, components, event_handlers, store_update_handlers,
                       brokerVars>>

\* the rpc-result ahead of what the method enqueued
ExecRpcResultFirst(mq, writes, req_id) ==
    Append(mq, Message(<<"rpc-result">>, NoneInt, req_id, EmptyFn)) \o writes

\* exec_rpc, line 150: the rpc-result follows what the method enqueued
ExecRpcMsgs(mq, writes, req_id) ==
    Append(mq \o writes, Message(<<"rpc-result">>, NoneInt, req_id, EmptyFn))

\* SessionHandler.exec_rpc with Component.__exec_rpc__, run as a task; a hook
\* only logs and returns None
RunRpc(task) ==
    LET present == task.comp_id \in DOMAIN components
        oid == components[task.comp_id]
        callable == present /\ Callable(objs[oid].cls, task.name)
        raised == IF ~present THEN "KeyError"
                  ELSE IF ~callable THEN "AttributeError" ELSE NoneVal
        writes == raised = NoneVal /\ RpcFlagged(objs[oid].cls, task.name)
        prop == ComponentMap[objs[oid].cls].prop
        value == RpcValue(objs[oid])
    IN  /\ objs' = IF writes THEN SetterState(objs, oid, prop, value) ELSE objs
        /\ msg_queue' =
               IF raised = NoneVal
               THEN ExecRpcMsgs(msg_queue,
                                IF writes
                                THEN SetterMsgs(<<>>, objs[oid].id, prop, value)
                                ELSE <<>>,
                                task.req_id)
               ELSE msg_queue
        /\ slast' = [SOp("run-rpc", raised) EXCEPT
                         !.wrote = IF writes THEN [oid |-> oid, prop |-> prop]
                                   ELSE NoWrite,
                         !.ran = IF raised = NoneVal THEN task.name ELSE NoneVal]
        /\ UNCHANGED <<components, event_handlers, store_update_handlers, brokerVars>>

\* the destroy-component message: the destruction becomes a task
HandleDestroy(comp_id) ==
    /\ handling
    /\ adding.at = "none"
    /\ Len(tasks) < MaxTasks
    /\ tasks' = Append(tasks, Task("destroy", NoneInt, comp_id, NoneVal, NoneInt))
    /\ slast' = SOp("destroy-component", NoneVal)
    /\ UNCHANGED serverVars
    /\ UNCHANGED <<sessions, connections, ws, handling, components, objs, msg_queue,
                   event_queue, event_handlers, store_update_handlers, next_req,
                   sender_task, brokerVars>>

\* repr of the ServiceMethodProxy that hasattr(proxy, 'event_handler') makes
ProxyAttr(service) ==
    IF service = "chat" THEN "ServiceMethodProxy(chat, event_handler)"
    ELSE "ServiceMethodProxy(?, event_handler)"

\* Component._remove_handlers: what it raises. ServiceProxy.__getattr__
\* answers every name, so a proxy attribute passes for an event handler and
\* event_handlers[...].remove(proxy) raises ValueError on the empty list of a
\* new key. The attributes are visited in the order of dir(self); the
\* classes here have at most one that matters
RemoveRaises(cls, comp_id, suh) ==
    IF ComponentMap[cls].services # {} THEN "ValueError"
    ELSE IF ComponentMap[cls].on_update
            /\ <<comp_id, ComponentMap[cls].prop>> \notin DOMAIN suh
         THEN "KeyError"
         ELSE NoneVal

\* SessionHandler.destroy_component with Component.__destroy__, run as a
\* task: on_destroy only logs, then _remove_handlers, pubsub.quit(self.id)
\* and the deletion from the table, each reached if nothing raised before
RunDestroy(task) ==
    LET present == task.comp_id \in DOMAIN components
        oid == components[task.comp_id]
        cls == objs[oid].cls
        raised == IF ~present THEN "KeyError"
                  ELSE RemoveRaises(cls, objs[oid].id, store_update_handlers)
        key == <<objs[oid].id, ComponentMap[cls].prop>>
    IN  /\ event_handlers' =
               \* the read of the defaultdict inserts the key
               IF present /\ ComponentMap[cls].services # {}
               THEN SetKey(event_handlers,
                           ProxyAttr(CHOOSE x \in ComponentMap[cls].services : TRUE),
                           <<>>)
               ELSE event_handlers
        /\ store_update_handlers' =
               IF raised = NoneVal /\ ComponentMap[cls].on_update
               THEN [k \in DOMAIN store_update_handlers \ {key} |->
                        store_update_handlers[k]]
               ELSE store_update_handlers
        /\ IF raised = NoneVal
           THEN /\ room_subscriptions' =
                       QuitRoomSubs(room_subscriptions, objs[oid].id, NoneVal)
                /\ subscribers' =
                       QuitSubscribers(subscribers, room_subscriptions,
                                       objs[oid].id, NoneVal)
                /\ message_queues' = QuitQueues(message_queues, objs[oid].id)
                /\ last' = Op("quit", objs[oid].id, NoneVal, NoneVal)
                /\ components' = [c \in DOMAIN components \ {task.comp_id} |->
                                      components[c]]
           ELSE UNCHANGED <<room_subscriptions, subscribers, message_queues, last,
                            components>>
        /\ slast' = SOp("run-destroy", raised)
        /\ UNCHANGED <<objs, msg_queue, event_count, queues, received>>

\* what a handler of a session event does: the hooks of Component only
\* log, a project's override may raise
HandlerOutcomes == {NoneVal, "HandlerError"}

\* a handler awaited by the loop that started it: its exception ends the loop
HandlerExitPropagates(loop, raised) == IF raised = NoneVal THEN loop ELSE "dead"

\* create_task, lines 229-233: the handler runs in a task of its own, whose
\* exception stays in the task object
HandlerExit(loop, raised) == loop

\* a handler started by the event dispatcher, run as a task
RunHandler(task, raised) ==
    /\ dispatcher_task' = HandlerExit(dispatcher_task, raised)
    /\ slast' = SOp("run-handler", raised)
    /\ UNCHANGED <<components, objs, msg_queue, event_handlers,
                   store_update_handlers, brokerVars>>

\* the event loop runs the oldest task of the session
RunTask ==
    /\ tasks # <<>>
    /\ tasks' = Tail(tasks)
    /\ CASE Head(tasks).kind = "update" ->
                RunUpdate(Head(tasks)) /\ UNCHANGED dispatcher_task
         [] Head(tasks).kind = "rpc" ->
                RunRpc(Head(tasks)) /\ UNCHANGED dispatcher_task
         [] Head(tasks).kind = "destroy" ->
                RunDestroy(Head(tasks)) /\ UNCHANGED dispatcher_task
         [] OTHER -> \E raised \in HandlerOutcomes : RunHandler(Head(tasks), raised)
    /\ UNCHANGED overlapVars
    /\ UNCHANGED <<sessions, connections, ws, handling, event_queue, next_req,
                   sender_task, service_configs, service_executors, serve_pc, calls>>

\* event_dispatcher, lines 252-255: a task for every handler of the event,
\* in the order of registration
RECURSIVE HandlerTasks(_, _)
HandlerTasks(handlers, table) ==
    IF handlers = <<>> THEN <<>>
    ELSE <<Task("event", NoneInt, table[Head(handlers)[1]].id,
                Head(handlers)[2], Head(handlers)[1])>>
         \o HandlerTasks(Tail(handlers), table)

\* one turn of SessionHandler.event_dispatcher: the handlers registered for
\* the event are started, each in a task. Reading event_handlers[event.name]
\* inserts a missing key
EventDispatcher ==
    /\ sessions # {}
    /\ dispatcher_task = "running"
    /\ event_queue # <<>>
    /\ Len(tasks) + Len(IF Head(event_queue) \in DOMAIN event_handlers
                        THEN event_handlers[Head(event_queue)] ELSE <<>>)
           <= MaxHandlerTasks
    /\ event_queue' = Tail(event_queue)
    /\ event_handlers' = IF Head(event_queue) \in DOMAIN event_handlers
                         THEN event_handlers
                         ELSE SetKey(event_handlers, Head(event_queue), <<>>)
    /\ slast' = [SOp("dispatch", NoneVal) EXCEPT
                     !.invoked = event_handlers'[Head(event_queue)]]
    /\ tasks' = tasks \o HandlerTasks(event_handlers'[Head(event_queue)], objs)
    /\ UNCHANGED serverVars
    /\ UNCHANGED <<sessions, connections, ws, handling, components, objs, msg_queue,
                   store_update_handlers, next_req, sender_task, brokerVars>>

\* what `await self.ws.send(...)` does on a connection seen open: it returns,
\* or the connection breaks under it
SendOutcomes == {"sent", "ConnectionClosedError", "WebSocketException"}

\* only the first except clause
SwallowedClosedOnly(exc) == exc = "ConnectionClosedError"

\* msg_sender, lines 177-180: the except clauses
Swallowed(exc) == exc \in {"ConnectionClosedError", "WebSocketException"}

\* the newest message instead
QueueGetNewest(q) == q[Len(q)]

\* asyncio.Queue.get: the oldest message
QueueGet(q) == Head(q)

\* one turn of SessionHandler.msg_sender: the message is sent on an open
\* connection and dropped otherwise; an exception that no except clause
\* names ends the task
MsgSender(outcome) ==
    LET op == IF ws.state # "open" THEN "drop"
              ELSE IF outcome = "sent" THEN "send" ELSE "send-failed"
    IN  /\ sessions # {}
        /\ sender_task = "running"
        /\ msg_queue # <<>>
        /\ ws.state # "open" => outcome = "sent"
        /\ msg_queue' = Tail(msg_queue)
        /\ sender_task' = IF op = "send-failed" /\ ~Swallowed(outcome)
                          THEN "dead" ELSE "running"
        /\ slast' = [SOp(op, IF op = "send-failed" THEN outcome ELSE NoneVal)
                         EXCEPT !.msg = QueueGet(msg_queue)]
        /\ UNCHANGED serverVars
        /\ UNCHANGED <<sessions, connections, ws, handling, components, objs,
                       event_queue, event_handlers, store_update_handlers, tasks,
                       next_req, brokerVars>>

\* an inbound frame that json.loads rejects, that is not a three-field
\* envelope, or whose content does not unpack for its topic: handle,
\* lines 282-297, raises inside the try block
BadFrames == {"not-json", "not-envelope", "bad-content"}

HandleBadMessage(frame) ==
    /\ handling
    /\ adding.at = "none"
    /\ HandleEnd("ValueError")
    /\ slast' = SOp(frame, "ValueError")
    /\ UNCHANGED serverVars
    /\ UNCHANGED <<components, objs, msg_queue, event_handlers,
                   store_update_handlers, tasks, next_req, sender_task, brokerVars>>

----------------------------------------------------------------------------
(* The server: its services, and the calls made through service proxies *)

\* the services a project may configure (StreamJam(services=...)), in the
\* order of the dict; init_services appends SocketService when it is missing
ConfiguredServices == {"chat"}
ServiceOrder == <<"chat", "SocketService">>

\* the service classes: the methods they have, and those that raise
ServiceMap ==
    [SocketService |-> [methods |-> {"connect", "disconnect", "on_connect",
                                     "on_disconnect"},
                        raises |-> {}],
     chat          |-> [methods |-> {"post", "fail"}, raises |-> {"fail"}]]

\* Service.__message_queue__ of the service's instance, as a queue number
ServiceQueue(name) == IF name = "chat" THEN 11 ELSE 12

\* AsyncServiceExecutor.__init__: no instance yet
NewExecutor == [inits |-> 0, receiver |-> "none", hooks |-> 0]

\* AsyncServiceExecutor.initialize with Service.__init_service__: the
\* instance is made, its receive loop started and its init hook awaited
Initialized(executor) ==
    [inits |-> executor.inits + 1, receiver |-> "running",
     hooks |-> executor.hooks + 1]

\* the executors in the order init_services visits them
ExecutorOrder(configs) == SelectSeq(ServiceOrder, LAMBDA n : n \in configs)

\* StreamJam.__init__
StreamJamInit ==
    /\ service_configs \in SUBSET ConfiguredServices
    /\ service_executors = EmptyFn
    /\ serve_pc = [at |-> "created", i |-> 1]
    /\ calls = <<>>
    /\ dispatcher_task = "running"

\* a server that serves: serve has run up to `async with serve(...)`
ServerRunning ==
    /\ service_configs = ConfiguredServices \cup {"SocketService"}
    /\ service_executors = [n \in service_configs |-> Initialized(NewExecutor)]
    /\ serve_pc = [at |-> "serving", i |-> Len(ExecutorOrder(service_configs)) + 1]
    /\ calls = <<>>
    /\ dispatcher_task = "running"

\* serve, line 427, with init_services, lines 361-368: the executors are
\* created, up to the first await
CreateExecutors ==
    /\ serve_pc.at = "created"
    /\ service_configs' = service_configs \cup {"SocketService"}
    /\ service_executors' = [n \in service_configs' |-> NewExecutor]
    /\ serve_pc' = [at |-> "initializing", i |-> 1]
    /\ UNCHANGED overlapVars
    /\ UNCHANGED <<calls, dispatcher_task, brokerVars, sessionVars>>

\* init_services, lines 370-372: one turn of the loop that initializes
InitializeService ==
    LET order == ExecutorOrder(service_configs)
        name == order[serve_pc.i]
    IN  /\ serve_pc.at = "initializing"
        /\ serve_pc.i <= Len(order)
        /\ service_executors' =
               [service_executors EXCEPT ![name] = Initialized(@)]
        /\ message_queues' = SetKey(message_queues, name, ServiceQueue(name))
        /\ last' = [Op("register", name, NoneVal, NoneVal)
                       EXCEPT !.queue = ServiceQueue(name)]
        /\ serve_pc' = [serve_pc EXCEPT !.i = @ + 1]
        /\ UNCHANGED overlapVars
        /\ UNCHANGED <<service_configs, calls, dispatcher_task, subscribers,
                       room_subscriptions, event_count, queues, received,
                       sessionVars>>

\* a transport opened without waiting for the services
ReadyToServeAtOnce(i, order) == TRUE

\* serve, lines 427-434: init_services has returned, the loop over the
\* executors is over
ReadyToServe(i, order) == i > Len(order)

\* serve, line 434: the transport starts to accept connections
StartServing ==
    /\ serve_pc.at = "initializing"
    /\ ReadyToServe(serve_pc.i, ExecutorOrder(service_configs))
    /\ serve_pc' = [serve_pc EXCEPT !.at = "serving"]
    /\ UNCHANGED overlapVars
    /\ UNCHANGED <<service_configs, service_executors, calls, dispatcher_task,
                   brokerVars, sessionVars>>

\* a call record: the asyncio task that runs the call and the future the
\* caller awaits
Call(service, method) ==
    [service |-> service, method |-> method, task |-> "scheduled",
     future |-> "pending", exc |-> NoneVal, sets |-> 0]

\* a component's code calls a method of its service proxy:
\* ServiceMethodProxy.__call__ and trigger_service_method. The task is made
\* by asyncio.create_task, not by the session's create_task
CallService(comp_id, method) ==
    LET cls == objs[components[comp_id]].cls
    IN  /\ comp_id \in DOMAIN components
        /\ ComponentMap[cls].services # {}
        /\ Len(calls) < MaxCalls
        /\ calls' = Append(calls,
                           Call(CHOOSE x \in ComponentMap[cls].services : TRUE, method))
        /\ slast' = SOp("call-service", NoneVal)
        /\ UNCHANGED overlapVars
        /\ UNCHANGED <<sessions, connections, ws, handling, components, objs,
                       msg_queue, event_queue, event_handlers,
                       store_update_handlers, tasks, next_req, sender_task,
                       service_configs, service_executors, serve_pc,
                       dispatcher_task, brokerVars>>

\* AsyncServiceExecutor.execute_method: what the call raises
MethodOutcome(service, method) ==
    IF method \notin ServiceMap[service].methods THEN "AttributeError"
    ELSE IF method \in ServiceMap[service].raises THEN "ServiceError"
    ELSE NoneVal

\* ServiceMethodProxy.execute_service_method: the executor is looked up
\* before the try block, so a KeyError ends the task with the future
\* untouched; inside the try block the future gets the result or the
\* exception
ExecuteServiceMethod(call, executors) ==
    IF call.service \notin DOMAIN executors
    THEN [call EXCEPT !.task = "failed", !.exc = "KeyError"]
    ELSE LET exc == MethodOutcome(call.service, call.method)
         IN  [call EXCEPT !.task = "done",
                          !.future = IF exc = NoneVal THEN "result" ELSE "exception",
                          !.exc = exc,
                          !.sets = @ + 1]

\* the event loop runs the oldest scheduled call
RunServiceCall ==
    \E i \in DOMAIN calls :
        /\ calls[i].task = "scheduled"
        /\ \A j \in 1..(i - 1) : calls[j].task # "scheduled"
        /\ calls' = [calls EXCEPT ![i] = ExecuteServiceMethod(@, service_executors)]
        /\ slast' = SOp("run-service-call",
                        IF calls'[i].task = "failed" THEN calls'[i].exc ELSE NoneVal)
        /\ UNCHANGED overlapVars
        /\ UNCHANGED <<sessions, connections, ws, handling, components, objs,
                       msg_queue, event_queue, event_handlers,
                       store_update_handlers, tasks, next_req, sender_task,
                       service_configs, service_executors, serve_pc,
                       dispatcher_task, brokerVars>>

\* exec_update_store_handler, lines 145-146, up to an await inside the
\* handler: the handler was found and called and waits; the task is still
\* in the registry, as a run that has started
StartUpdate ==
    /\ tasks # <<>>
    /\ Head(tasks).kind = "update"
    /\ <<Head(tasks).comp_id, Head(tasks).name>> \in DOMAIN store_update_handlers
    /\ Len(update_runs) < MaxRuns
    /\ tasks' = Tail(tasks)
    /\ update_runs' = Append(update_runs, [task |-> Head(tasks), done |-> FALSE])
    /\ slast' = SOp("start-update", NoneVal)
    /\ UNCHANGED <<sessions, connections, ws, handling, components, objs, msg_queue,
                   event_queue, event_handlers, store_update_handlers, next_req,
                   sender_task, service_configs, service_executors, serve_pc, calls,
                   dispatcher_task, adding, old_loops, identities, brokerVars>>

\* exec_update_store_handler, line 146, from the return of the handler: the
\* component is looked up and its state assigned
FinishUpdate(i) ==
    LET task == update_runs[i].task
        raised == IF task.comp_id \notin DOMAIN components
                  THEN "KeyError" ELSE NoneVal
    IN  /\ i \in DOMAIN update_runs
        /\ ~update_runs[i].done
        /\ objs' = IF raised = NoneVal
                   THEN [objs EXCEPT ![components[task.comp_id]].state =
                                         SetKey(@, task.name, StoredByHandler(task.value))]
                   ELSE objs
        /\ update_runs' = [update_runs EXCEPT ![i].done = TRUE]
        /\ slast' = SOp("finish-update", raised)
        /\ UNCHANGED <<sessions, connections, ws, handling, components, msg_queue,
                       event_queue, event_handlers, store_update_handlers, tasks,
                       next_req, sender_task, service_configs, service_executors,
                       serve_pc, calls, dispatcher_task, adding, old_loops,
                       identities, brokerVars>>

\* no add_component call in flight
NoAdd == [at |-> "none", comp_id |-> NoneVal, parent_id |-> NoneVal, oid |-> 0]

\* add_component, lines 79-84, up to an await inside __post_init__ or
\* on_connect: the component is constructed (its handlers registered, its
\* subscriptions made, its receive task started), its queue registered and
\* its props stored; it is not in the table yet
AddComponentSuspend(comp_id, parent_id, comp_type, props) ==
    LET oid == Len(objs) + 1
        obj == [id |-> comp_id, cls |-> comp_type, parent_id |-> parent_id,
                state |-> props, children |-> <<>>, receiver |-> "running"]
    IN  /\ handling
        /\ adding.at = "none"
        /\ comp_type \in DOMAIN ComponentMap
        /\ Len(objs) < MaxObjects
        /\ event_handlers' =
               RegisterEventHandler(
                   RegisterEventHandler(event_handlers, "$session_connect",
                                        <<oid, "on_connect">>),
                   "$session_disconnect", <<oid, "on_disconnect">>)
        /\ store_update_handlers' =
               IF ComponentMap[comp_type].on_update
               THEN SetKey(store_update_handlers,
                           <<comp_id, ComponentMap[comp_type].prop>>, oid)
               ELSE store_update_handlers
        /\ subscribers' = SubscribeAll(subscribers, ComponentSid(comp_id),
                                       ComponentMap[comp_type].listens)
        /\ message_queues' = SetKey(message_queues, ComponentSid(comp_id), oid)
        /\ last' = [Op("register", ComponentSid(comp_id), NoneVal, NoneVal)
                       EXCEPT !.queue = oid]
        /\ objs' = Append(objs, obj)
        /\ adding' = [at |-> "hook", comp_id |-> comp_id, parent_id |-> parent_id,
                      oid |-> oid]
        /\ slast' = SOp("add-component-wait", NoneVal)
        /\ UNCHANGED <<sessions, connections, ws, handling, components, msg_queue,
                       event_queue, tasks, next_req, sender_task, service_configs,
                       service_executors, serve_pc, calls, dispatcher_task,
                       update_runs, old_loops, identities, room_subscriptions,
                       event_count, queues, received>>

\* add_component, lines 85-88, from the return of the hooks: the component
\* enters the table and its parent's child list
AddComponentResume ==
    LET table == SetKey(components, adding.comp_id, adding.oid)
        found == ParentFound(components, adding.comp_id, adding.oid, adding.parent_id)
        raised == IF found THEN NoneVal ELSE "KeyError"
    IN  /\ adding.at = "hook"
        /\ components' = table
        /\ objs' = IF found
                   THEN [objs EXCEPT ![table[adding.parent_id]].children =
                                         Append(@, adding.oid)]
                   ELSE objs
        /\ adding' = NoAdd
        /\ HandleEnd(raised)
        /\ slast' = SOp("add-component", raised)
        /\ UNCHANGED <<msg_queue, event_handlers, store_update_handlers, tasks,
                       next_req, sender_task, service_configs, service_executors,
                       serve_pc, calls, dispatcher_task, update_runs, old_loops,
                       identities, brokerVars>>

\* StreamJam.router for a connection that resolves to the identity of the
\* session while handle still iterates the session's connection (lines 391,
\* 399-408): no session is created, session.ws is replaced, the state is
\* sent and a second call of handle queues the connect event; the first
\* call of handle keeps iterating the connection it started with
RouterReplace ==
    /\ serve_pc.at = "serving"
    /\ handling
    /\ ws.state = "open"
    /\ ws.id < MaxConns
    /\ connections' = SetKey(connections, SessionId, ws.id + 1)
    /\ ws' = [id |-> ws.id + 1, state |-> "open", disconnects |-> 0]
    /\ msg_queue' = SendState(msg_queue, components)
    /\ event_queue' = Append(event_queue, "$session_connect")
    /\ old_loops' = old_loops + 1
    /\ slast' = SOp("reconnect", NoneVal)
    /\ UNCHANGED <<sessions, handling, components, objs, event_handlers,
                   store_update_handlers, tasks, next_req, sender_task,
                   service_configs, service_executors, serve_pc, calls,
                   dispatcher_task, update_runs, adding, identities, brokerVars>>

\* handle, lines 300-306, in a call whose connection was replaced: the
\* iteration of the older connection ends, the disconnect event is queued
\* and SocketService.disconnect is called with self.ws, the newer connection
OldLoopEnd ==
    /\ old_loops > 0
    /\ event_queue' = ExitEvents(event_queue)
    /\ ws' = [ws EXCEPT !.disconnects = @ + 1]
    /\ old_loops' = old_loops - 1
    /\ slast' = SOp("old-close", NoneVal)
    /\ UNCHANGED <<sessions, connections, handling, components, objs, msg_queue,
                   event_handlers, store_update_handlers, tasks, next_req,
                   sender_task, service_configs, service_executors, serve_pc,
                   calls, dispatcher_task, update_runs, adding, identities,
                   brokerVars>>

\* SocketService.__init__: the default strategy; no session yet
PathStrategy == [strategy |-> "path", ids |-> EmptyFn, owners |-> <<>>]

\* nothing has started to wait
OverlapInit ==
    /\ update_runs = <<>>
    /\ adding = NoAdd
    /\ old_loops = 0
    /\ identities = PathStrategy

\* the values SocketService takes for session_strategy
Strategies == {"path", "connection_id", "remote_ip"}

\* connections by ws.request.path, ws.id and ws.remote_address[0]: two
\* clients on one path, and one client on two paths
Conns ==
    {[path |-> "/app", id |-> "k1", ip |-> "10.0.0.1"],
     [path |-> "/app", id |-> "k2", ip |-> "10.0.0.2"],
     [path |-> "/kiosk", id |-> "k3", ip |-> "10.0.0.1"]}

\* SocketService.on_connect: the identity of the session of a connection
OnConnect(strategy, conn) ==
    CASE strategy = "path" -> conn.path
      [] strategy = "connection_id" -> conn.id
      [] OTHER -> conn.ip

\* f'{self.id}/{component.id}' for the SessionHandler.id of any connection
SidOf(path, comp_id) ==
    CASE path = SessionId -> ComponentSid(comp_id)
      [] comp_id = "c1" -> "/kiosk/c1"
      [] OTHER -> "/kiosk/?"

\* StreamJam.router, lines 386-398, over the sessions of all identities: the
\* identity comes from SocketService.connect, and a SessionHandler made for a
\* new identity takes the path of the connection as its id
ConnectAs(conn) ==
    LET identity == OnConnect(identities.strategy, conn)
    IN  /\ serve_pc.at = "serving"
        /\ sessions' = sessions \cup {identity}
        /\ identities' =
               [identities EXCEPT !.ids = IF identity \in DOMAIN @ THEN @
                                          ELSE SetKey(@, identity, conn.path)]
        /\ slast' = SOp("connect", NoneVal)
        /\ UNCHANGED <<connections, ws, handling, components, objs, msg_queue,
                       event_queue, event_handlers, store_update_handlers, tasks,
                       next_req, sender_task, service_configs, service_executors,
                       serve_pc, calls, dispatcher_task, update_runs, adding,
                       old_loops, brokerVars>>

\* add_component, lines 79-81, in the session of an identity: the component
\* subscribes and its new queue is registered under the session's id and
\* its own
AddComponentOf(identity, comp_id, comp_type) ==
    LET sid == SidOf(identities.ids[identity], comp_id)
        queue == Len(identities.owners) + 1
    IN  /\ identity \in DOMAIN identities.ids
        /\ queue \in AllQueues
        /\ subscribers' = SubscribeAll(subscribers, sid, ComponentMap[comp_type].listens)
        /\ message_queues' = SetKey(message_queues, sid, queue)
        /\ last' = [Op("register", sid, NoneVal, NoneVal) EXCEPT !.queue = queue]
        /\ identities' =
               [identities EXCEPT !.owners =
                    Append(@, [identity |-> identity, sid |-> sid])]
        /\ slast' = SOp("add-component", NoneVal)
        /\ UNCHANGED <<sessions, connections, ws, handling, components, objs,
                       msg_queue, event_queue, event_handlers,
                       store_update_handlers, tasks, next_req, sender_task,
                       service_configs, service_executors, serve_pc, calls,
                       dispatcher_task, update_runs, adding, old_loops,
                       room_subscriptions, event_count, queues, received>>

\* a server that serves, under any strategy of its SocketService
IdentityInit ==
    /\ BrokerInit
    /\ SessionInit
    /\ ServerRunning
    /\ update_runs = <<>>
    /\ adding = NoAdd
    /\ old_loops = 0
    /\ identities \in {[PathStrategy EXCEPT !.strategy = s] : s \in Strategies}

\* the specifications of the broker and of one session start with a server
\* that serves
Init == BrokerInit /\ SessionInit /\ ServerRunning /\ OverlapInit

\* the state after StreamJam.__init__
ServerInit == BrokerInit /\ SessionInit /\ StreamJamInit /\ OverlapInit

CompIds == {"c1", "c2"}
ParentIds == {"root", "c1"}
CompTypes == {"Counter", "Slider", "Gauge"}
PropsSent == {EmptyFn, "count" :> 0}
StoreValues == {2}

SessionNext ==
    \/ Router
    \/ \E comp_id \in CompIds, parent_id \in ParentIds, comp_type \in CompTypes,
          props \in PropsSent :
           HandleAddComponent(comp_id, parent_id, comp_type, props)
    \/ \E comp_id \in CompIds, store_name \in {"count", "value"}, value \in StoreValues :
           HandleStoreSet(comp_id, store_name, value)
    \/ \E comp_id \in CompIds, rpc_name \in {"increment", "reset"} :
           HandleExecRpc(comp_id, rpc_name)
    \/ HandleClose
    \/ RunTask
    \/ \E outcome \in SendOutcomes : MsgSender(outcome)

SessionSpec == Init /\ [][SessionNext]_vars

\* one component, the calls a client can name on it, and the wire
RpcNext ==
    \/ Router
    \/ \E parent_id \in ParentIds, comp_type \in {"Counter", "Slider"} :
           HandleAddComponent("c1", parent_id, comp_type, EmptyFn)
    \/ \E comp_id \in CompIds, rpc_name \in {"increment", "reset", "on_destroy"} :
           HandleExecRpc(comp_id, rpc_name)
    \/ \E frame \in BadFrames : HandleBadMessage(frame)
    \/ HandleClose
    \/ RunTask
    \/ \E outcome \in SendOutcomes : MsgSender(outcome)

RpcSpec == Init /\ [][RpcNext]_vars

\* components and the values a client sets on their properties
StoreNext ==
    \/ Router
    \/ \E comp_id \in CompIds, parent_id \in ParentIds,
          comp_type \in {"Counter", "Slider"}, props \in PropsSent :
           HandleAddComponent(comp_id, parent_id, comp_type, props)
    \/ \E comp_id \in CompIds, store_name \in {"count", "value"}, value \in {0, 2} :
           HandleStoreSet(comp_id, store_name, value)
    \/ HandleClose
    \/ RunTask

StoreSpec == Init /\ [][StoreNext]_vars

\* components that are created and destroyed, the session events, and a
\* service that publishes to the components listening
DestroyNext ==
    \/ Router
    \/ \E parent_id \in ParentIds, comp_type \in {"Slider", "Chat", "Feed"} :
           HandleAddComponent("c1", parent_id, comp_type, EmptyFn)
    \/ \E comp_id \in CompIds : HandleDestroy(comp_id)
    \/ HandleClose
    \/ RunTask
    \/ EventDispatcher
    \/ /\ event_count < MaxEvents
       /\ Publish("$Service/feed", "tick", "feed", 1, {}, {}, {})

DestroySpec == Init /\ [][DestroyNext]_vars

\* two components on a session, the session events and their handlers, and
\* calls that raise
DispatchNext ==
    \/ Router
    \/ \E comp_id \in CompIds :
           HandleAddComponent(comp_id, "c1", "Counter", EmptyFn)
    \/ \E comp_id \in CompIds, rpc_name \in {"increment", "missing"} :
           HandleExecRpc(comp_id, rpc_name)
    \/ HandleClose
    \/ RunTask
    \/ EventDispatcher

DispatchSpec == Init /\ [][DispatchNext]_vars

\* a Slider whose on_update handler waits before it returns, and the values
\* a client sets
UpdateNext ==
    \/ Router
    \/ HandleAddComponent("c1", "c1", "Slider", EmptyFn)
    \/ \E value \in {0, 2} : HandleStoreSet("c1", "value", value)
    \/ StartUpdate
    \/ \E i \in 1..MaxRuns : FinishUpdate(i)
    \/ HandleClose

UpdateSpec == Init /\ [][UpdateNext]_vars

\* a Feed component whose hooks wait, the session events and the events of
\* the service it listens to
HookNext ==
    \/ Router
    \/ AddComponentSuspend("c1", "c1", "Feed", EmptyFn)
    \/ AddComponentResume
    \/ /\ event_count < MaxEvents
       /\ Publish("$Service/feed", "tick", "feed", 1, {}, {}, {})
    \/ \E q \in AllQueues : Receive(q)
    \/ EventDispatcher
    \/ RunTask
    \/ HandleClose

HookSpec == Init /\ [][HookNext]_vars

\* connections that arrive for the session while it is connected
ReconnectNext ==
    \/ Router
    \/ RouterReplace
    \/ OldLoopEnd
    \/ HandleAddComponent("c1", "c1", "Slider", EmptyFn)
    \/ EventDispatcher
    \/ RunTask
    \/ HandleClose

ReconnectSpec == Init /\ [][ReconnectNext]_vars

\* the sessions of several identities, their components and the events of
\* the service the components listen to
IdentityNext ==
    \/ \E conn \in Conns : ConnectAs(conn)
    \/ \E identity \in DOMAIN identities.ids :
           AddComponentOf(identity, "c1", "Feed")
    \/ /\ event_count < MaxEvents
       /\ Publish("$Service/feed", "tick", "feed", 1, {}, {}, {})
    \/ \E q \in AllQueues : Receive(q)

IdentitySpec == IdentityInit /\ [][IdentityNext]_vars

\* the server from its construction: the start of serve, a session with a
\* component that holds a service proxy, and the calls through the proxy
ServerNext ==
    \/ CreateExecutors
    \/ InitializeService
    \/ StartServing
    \/ Router
    \/ HandleAddComponent("c1", "c1", "Chat", EmptyFn)
    \/ \E method \in {"post", "fail", "nope"} : CallService("c1", method)
    \/ RunServiceCall
    \/ HandleClose

ServerSpec == ServerInit /\ [][ServerNext]_vars

----------------------------------------------------------------------------
(* The broker under every interleaving of its callers' operations *)

Sids == {"s1", "s2"}
Channels == {"c1"}
Topics == {"t1", "t2"}
Rooms == {"r1"}

Next ==
    \/ \E sid \in Sids : Register(sid, OwnQueue(sid))
    \/ \E sid \in Sids, c \in Channels, t \in Topics : Subscribe(sid, c, t)
    \/ \E sid \in Sids, c \in Channels, t \in Topics : Unsubscribe(sid, c, t)
    \/ \E c \in Channels, t \in Topics, rooms \in SUBSET Rooms,
          recipients \in {{}, {"s1"}}, exclude \in {{}, {"s1"}, {"s2"}} :
           /\ event_count < MaxEvents
           /\ Publish(c, t, c, 1, rooms, recipients, exclude)
    \/ \E sid \in Sids, c \in Channels, r \in Rooms : JoinRoom(sid, c, r)
    \/ \E sid \in Sids, c \in Channels, r \in Rooms : LeaveRoom(sid, c, r)
    \/ \E sid \in Sids, c \in Channels \cup {NoneVal} : Quit(sid, c)

Spec == Init /\ [][Next]_vars

----------------------------------------------------------------------------
(* One subscriber's queue: publishes of every priority, and its receive loop *)

QueueNext ==
    \/ Register("s1", OwnQueue("s1"))
    \/ \E t \in Topics : Subscribe("s1", "c1", t)
    \/ \E t \in Topics, p \in Priorities :
           /\ event_count < MaxQueued
           /\ Publish("c1", t, "c1", p, {}, {}, {})
    \/ Receive(OwnQueue("s1"))

QueueSpec == Init /\ [][QueueNext]_vars

----------------------------------------------------------------------------
(* One subscriber on two channels and in two rooms *)

RoomChannels == {"c1", "c2"}

RoomNext ==
    \/ Register("s1", OwnQueue("s1"))
    \/ \E c \in RoomChannels : Subscribe("s1", c, "t1")
    \/ \E r \in AllRooms : JoinRoom("s1", "c1", r)
    \/ \E r \in AllRooms : LeaveRoom("s1", "c1", r)
    \/ \E c \in RoomChannels : Quit("s1", c)
    \/ \E c \in RoomChannels, rooms \in {{}, {"r1"}, {"r2"}} :
           /\ event_count < MaxEvents
           /\ Publish(c, "t1", c, 1, rooms, {}, {})

RoomSpec == Init /\ [][RoomNext]_vars

----------------------------------------------------------------------------
(* Claims about the broker *)

\* the growth of a subscriber's queue over a step
Enqueued(sid) ==
    Len(queues'[message_queues[sid]]) - Len(queues[message_queues[sid]])

\* the recipients a publish is to resolve: the topic's subscribers, within the
\* room members and explicit recipients when either is given, minus exclude
ExpectedRecipients(subs, rs, channel, name, rooms, recipients, exclude) ==
    LET given == rooms # {} \/ recipients # {}
        pool == recipients \cup UNION {RoomMembers(rs, channel, r) : r \in rooms}
    IN  (IF given THEN SubsOf(subs, channel, name) \cap pool
                  ELSE SubsOf(subs, channel, name)) \ exclude

\* C1: publish enqueues the event exactly once for every registered id among
\* (subscribers of channel/name) /\ (rooms' members and recipients when either
\* is given, else all) - exclude, and zero times for every other id; when
\* rooms or recipients is given and the union is empty, nobody receives it.
C1_PublishResolvesRecipients ==
    [][last'.op = "publish" =>
        \A sid \in DOMAIN message_queues :
            Enqueued(sid) =
                IF sid \in ExpectedRecipients(subscribers, room_subscriptions,
                                              last'.channel, last'.name, last'.rooms,
                                              last'.recipients, last'.exclude)
                THEN 1 ELSE 0]_brokerVars

\* C2: a publish on the channel right after join_room(sid, channel, room) by a
\* registered sid is delivered to sid, whatever the event's name; a publish
\* on the channel right after leave_room(sid, channel, room) is not.
C2_JoinThenPublishDelivers ==
    [][(/\ last'.op = "publish"
        /\ last.sid \in DOMAIN message_queues
        /\ last'.channel = last.channel
        /\ last'.rooms = {} /\ last'.recipients = {}
        /\ last.sid \notin last'.exclude)
       => /\ last.op = "join_room" => Enqueued(last.sid) = 1
          /\ last.op = "leave_room" => Enqueued(last.sid) = 0]_brokerVars

\* C3: when a topic of a channel gets its subscriber set by a subscribe, every
\* current member of a room of that channel is in the new topic's set.
C3_NewTopicCoversRoomMembers ==
    [][(/\ last'.op = "subscribe"
        /\ last'.name \notin TopicKeys(subscribers, last'.channel))
       => \A k \in DOMAIN room_subscriptions :
              k[1] = last'.channel =>
                  room_subscriptions[k] \subseteq
                      SubsOf(subscribers', last'.channel, last'.name)]_brokerVars

\* C6: a publish whose topic has a subscriber without a queue raises nothing,
\* registers no queue, leaves the queue object of every such subscriber as it
\* was, and still enqueues once for every other resolved recipient.
C6_PublishSkipsMissingQueue ==
    [][(/\ last'.op = "publish"
        /\ SubsOf(subscribers, last'.channel, last'.name) \ DOMAIN message_queues # {})
       => /\ last'.raised = NoneVal
          /\ message_queues' = message_queues
          /\ \A sid \in SubsOf(subscribers, last'.channel, last'.name)
                            \ DOMAIN message_queues :
                 queues'[OwnQueue(sid)] = queues[OwnQueue(sid)]
          /\ \A sid \in ExpectedRecipients(subscribers, room_subscriptions,
                                           last'.channel, last'.name, last'.rooms,
                                           last'.recipients, last'.exclude)
                            \cap DOMAIN message_queues :
                 Enqueued(sid) = 1]_brokerVars

\* a publish met a subscriber without a queue and delivered to another one
C6_Witness ==
    /\ last.op = "publish"
    /\ last.no_queue # {}
    /\ last.delivered # {}
    /\ \E sid \in last.delivered : queues[message_queues[sid]] # <<>>

\* every room and topic set of the channels in cs is free of sid
GoneFrom(sid, cs) ==
    /\ \A k \in DOMAIN room_subscriptions :
           k[1] \in cs => sid \notin room_subscriptions[k]
    /\ \A c \in DOMAIN subscribers \cap cs :
           \A t \in DOMAIN subscribers[c] : sid \notin subscribers[c][t]

\* C7: after quit(sid) sid is in no room and no topic set of any channel and
\* has no queue; after quit(sid, channel) the same holds for that channel.
C7_QuitRemovesEverywhere ==
    last.op = "quit" =>
        /\ last.sid \notin DOMAIN message_queues
        /\ GoneFrom(last.sid,
                    IF last.channel = NoneVal THEN AllChannels ELSE {last.channel})

\* C4: the event a receive loop takes has the lowest priority number of all
\* the events queued for it, so events published with priorities 3, 1, 2
\* before any is consumed are obtained in the order 1, 2, 3.
C4_ReceiveInPriorityOrder ==
    /\ last.op = "receive" =>
           LET q == last.queue
               got == received[q][Len(received[q])]
           IN  \A i \in 1..Len(queues[q]) : got.priority <= queues[q][i].priority
    /\ \A q \in DOMAIN queues :
           (/\ received[q] = <<>>
            /\ Len(queues[q]) = 3
            /\ \A i \in 1..3 :
                   queues[q][i].priority = <<3, 1, 2>>[queues[q][i].data])
           => LET h1 == queues[q]
                  h2 == HeapPop(h1)
                  h3 == HeapPop(h2)
              IN  <<HeapTop(h1).priority, HeapTop(h2).priority, HeapTop(h3).priority>>
                      = <<1, 2, 3>>

\* priorities 3, 1, 2 were published in that order and received as 1, 2, 3
C4_Witness ==
    LET r == received[OwnQueue("s1")]
    IN  /\ Len(r) = 3
        /\ <<r[1].priority, r[2].priority, r[3].priority>> = <<1, 2, 3>>
        /\ <<r[1].data, r[2].data, r[3].data>> = <<2, 3, 1>>

\* C5: an event is received before every event of the same priority that was
\* published to the same queue after it: none of equal priority and earlier
\* publish is still queued when an event is taken.
C5_EqualPriorityIsFifo ==
    last.op = "receive" =>
        LET q == last.queue
            got == received[q][Len(received[q])]
        IN  \A i \in 1..Len(queues[q]) :
                queues[q][i].priority = got.priority => queues[q][i].data > got.data

----------------------------------------------------------------------------
(* Claims about the session's components *)

\* the store-value messages of a queue, in order
StoreValueMsgs(mq) == SelectSeq(mq, LAMBDA m : m.topic[1] = "store-value")

\* C8: a write through the property setter enqueues exactly one store-value
\* message for that component and property carrying the new value; a write
\* that comes from a store-set message, applied directly or through the
\* on_update handler, enqueues none.
C8_SetterSendsOnceClientWriteSilent ==
    [][/\ (slast'.op = "run-rpc" /\ slast'.wrote # NoWrite) =>
              LET oid == slast'.wrote.oid
                  prop == slast'.wrote.prop
              IN  StoreValueMsgs(msg_queue') =
                      Append(StoreValueMsgs(msg_queue),
                             Message(<<"store-value", objs[oid].id, prop>>,
                                     objs'[oid].state[prop], NoneInt, EmptyFn))
       /\ slast'.op \in {"store-set", "run-update"} =>
              StoreValueMsgs(msg_queue') = StoreValueMsgs(msg_queue)]_vars

\* a client write has just changed, through the on_update handler, a property
\* whose earlier server-side write is still announced in the queue
C8_Witness ==
    /\ slast.op = "run-update"
    /\ slast.raised = NoneVal
    /\ \E i \in 1..Len(msg_queue) :
           LET m == msg_queue[i]
           IN  /\ m.topic[1] = "store-value"
               /\ m.topic[2] \in DOMAIN components
               /\ Getter(objs[components[m.topic[2]]], m.topic[3]) # m.content

\* C9: add_component with a parent_id that is not in the component table
\* fails with a KeyError and leaves the table as it was.
C9_UnknownParentLeavesTable ==
    [][\A comp_id \in CompIds, parent_id \in ParentIds, comp_type \in CompTypes,
          props \in PropsSent :
           (/\ parent_id \notin DOMAIN components
            /\ HandleAddComponent(comp_id, parent_id, comp_type, props)) =>
               /\ slast'.raised = "KeyError"
               /\ components' = components]_vars

\* C10: in a new session with an empty table, add-component
\* ["c1", "root", "Counter", {"count": 0}] creates c1 with count = 0, which
\* the next app-state would show, and the receive loop keeps running.
C10_AddComponentKeepsLoopRunning ==
    [][(/\ ws.id = 1
        /\ components = EmptyFn
        /\ HandleAddComponent("c1", "root", "Counter", "count" :> 0)) =>
           /\ "c1" \in DOMAIN components'
           /\ SendState(<<>>, components')[1].state # EmptyFn
           /\ Getter(objs'[components'["c1"]], "count") = 0
           /\ handling']_vars

----------------------------------------------------------------------------
(* Claims about exec-rpc *)

\* the rpc-result messages of a queue, in order
RpcResults(mq) == SelectSeq(mq, LAMBDA m : m.topic[1] = "rpc-result")

\* the exec-rpc task that the step runs
RpcTaskRuns == tasks # <<>> /\ Head(tasks).kind = "rpc" /\ tasks' = Tail(tasks)

\* C11: __exec_rpc__ runs a method only if it exists and is flagged with
\* Component.rpc; for an absent or unflagged method it raises AttributeError
\* and runs nothing.
C11_OnlyFlaggedMethodsRun ==
    [][(RpcTaskRuns /\ Head(tasks).comp_id \in DOMAIN components) =>
           LET cls == objs[components[Head(tasks).comp_id]].cls
           IN  IF RpcFlagged(cls, Head(tasks).name)
               THEN slast'.ran = Head(tasks).name
               ELSE slast'.ran = NoneVal /\ slast'.raised = "AttributeError"]_vars

\* C12: every exec-rpc request gets exactly one rpc-result with its id on the
\* outbound queue, also when the call fails: the task of the request does not
\* end without enqueuing it.
C12_EveryRequestGetsResult ==
    [][RpcTaskRuns =>
           /\ Len(RpcResults(msg_queue')) = Len(RpcResults(msg_queue)) + 1
           /\ msg_queue'[Len(msg_queue')].topic[1] = "rpc-result"
           /\ msg_queue'[Len(msg_queue')].req_id = Head(tasks).req_id]_vars

\* C13: the store-value messages of an RPC's property writes are enqueued
\* before the rpc-result of the request, and the rpc-result carries the
\* request's id.
C13_StoreValuesBeforeResult ==
    [][(RpcTaskRuns /\ slast'.wrote # NoWrite) =>
           LET n == Len(msg_queue)
               oid == slast'.wrote.oid
           IN  /\ Len(msg_queue') = n + 2
               /\ SubSeq(msg_queue', 1, n) = msg_queue
               /\ msg_queue'[n + 1] =
                      Message(<<"store-value", objs[oid].id, slast'.wrote.prop>>,
                              Getter(objs'[oid], slast'.wrote.prop), NoneInt, EmptyFn)
               /\ msg_queue'[n + 2].topic[1] = "rpc-result"
               /\ msg_queue'[n + 2].req_id = Head(tasks).req_id]_vars

\* increment has run on a Counter: its count is 1, announced by the
\* store-value that stands right before the rpc-result of request 1
C13_Witness ==
    /\ slast.op = "run-rpc"
    /\ slast.ran = "increment"
    /\ Len(msg_queue) >= 2
    /\ LET n == Len(msg_queue)
       IN  /\ msg_queue[n].topic[1] = "rpc-result"
           /\ msg_queue[n].req_id = 1
           /\ msg_queue[n - 1].topic = <<"store-value", "c1", "count">>
           /\ msg_queue[n - 1].content = 1
           /\ Getter(objs[components["c1"]], "count") = 1

----------------------------------------------------------------------------
(* Claims about connections and the outbound queue *)

\* C14: a connection that drops leaves the session's component table and the
\* components' state as they were; a new connection on the same identity
\* reattaches the existing session with table and state unchanged, and
\* enqueues an app-state snapshot of that table before handle reads any
\* inbound message of the new connection.
C14_ReattachKeepsStateAndSendsSnapshot ==
    [][/\ slast'.op = "close" =>
              /\ components' = components
              /\ objs' = objs
              /\ sessions' = sessions
       /\ (~handling /\ handling' /\ SessionId \in sessions) =>
              /\ sessions' = sessions
              /\ components' = components
              /\ objs' = objs
              /\ tasks' = tasks
              /\ msg_queue' = Append(msg_queue,
                                     Message(<<"app-state">>, NoneInt, NoneInt,
                                             components))]_vars

\* the second connection has just been attached to a session whose component
\* holds state, and the snapshot of it is the newest message of the queue
C14_Witness ==
    /\ slast.op = "connect"
    /\ ws.id = 2
    /\ \E c \in DOMAIN components : objs[components[c]].state # EmptyFn
    /\ msg_queue # <<>>
    /\ msg_queue[Len(msg_queue)].topic = <<"app-state">>
    /\ msg_queue[Len(msg_queue)].state = components

\* a turn of msg_sender
SenderTurn == slast'.op \in {"send", "drop", "send-failed"}

\* C18: the outbound queue is FIFO: send_msg only appends, and each turn of
\* msg_sender takes the oldest message, once, and hands it to the transport
\* when the connection is open.
C18_OutboundQueueIsFifo ==
    [][/\ SenderTurn =>
              /\ slast'.msg = Head(msg_queue)
              /\ msg_queue' = Tail(msg_queue)
              /\ slast'.op = "send" => ws.state = "open"
       /\ ~SenderTurn =>
              /\ Len(msg_queue') >= Len(msg_queue)
              /\ SubSeq(msg_queue', 1, Len(msg_queue)) = msg_queue]_vars

\* the store-value of an RPC has been handed to the open connection while the
\* rpc-result enqueued after it is still the oldest message waiting
C18_Witness ==
    /\ slast.op = "send"
    /\ slast.msg.topic[1] = "store-value"
    /\ msg_queue # <<>>
    /\ Head(msg_queue).topic[1] = "rpc-result"

C20_BadMessageIsSkipped ==
    [][(handling /\ slast'.op \in BadFrames) =>
           /\ handling'
           /\ ws' = ws
           /\ event_queue' = event_queue]_vars

----------------------------------------------------------------------------
(* Claims about destroy_component *)

\* the destroy task that the step runs
DestroyTaskRuns == tasks # <<>> /\ Head(tasks).kind = "destroy" /\ tasks' = Tail(tasks)

\* C15: once destroy_component has removed a component from the table, no
\* handler bound to it is left in the event-handler table ($session_connect
\* and $session_disconnect included) or in the store-update-handler table.
C15_DestroyLeavesNoHandler ==
    [][(/\ DestroyTaskRuns
        /\ Head(tasks).comp_id \in DOMAIN components
        /\ Head(tasks).comp_id \notin DOMAIN components') =>
           LET oid == components[Head(tasks).comp_id]
           IN  /\ \A e \in DOMAIN event_handlers' :
                      \A i \in 1..Len(event_handlers'[e]) :
                          event_handlers'[e][i][1] # oid
               /\ \A k \in DOMAIN store_update_handlers' :
                      store_update_handlers'[k] # oid]_vars

\* C16: once destroy_component has completed, the sid session_id/comp_id has
\* no queue registration and is in no topic subscriber set and no room.
C16_DestroyQuitsBroker ==
    [][(/\ DestroyTaskRuns
        /\ Head(tasks).comp_id \in DOMAIN components
        /\ slast'.raised = NoneVal) =>
           LET sid == ComponentSid(Head(tasks).comp_id)
           IN  /\ sid \notin DOMAIN message_queues'
               /\ \A c \in DOMAIN subscribers' :
                      \A t \in DOMAIN subscribers'[c] : sid \notin subscribers'[c][t]
               /\ \A k \in DOMAIN room_subscriptions' :
                      sid \notin room_subscriptions'[k]]_vars

\* C17: destroy_component for a component of the table ends with its id
\* absent from the table, whatever the component's class.
C17_DestroyRemovesFromTable ==
    [][(DestroyTaskRuns /\ Head(tasks).comp_id \in DOMAIN components) =>
           Head(tasks).comp_id \notin DOMAIN components']_vars

----------------------------------------------------------------------------
(* Claims about the state of components *)

\* the on_update task that the step runs
UpdateTaskRuns == tasks # <<>> /\ Head(tasks).kind = "update" /\ tasks' = Tail(tasks)

\* C24: set_store with an on_update handler registered for (comp_id, name)
\* runs the handler with the client's value and the state for name becomes
\* what the handler returns; without a handler the state becomes the
\* client's value.
C24_StoreSetAssignsHandlerResult ==
    [][/\ (UpdateTaskRuns /\ slast'.raised = NoneVal) =>
              objs'[components[Head(tasks).comp_id]].state[Head(tasks).name] =
                  UpdateHandler(Head(tasks).value)
       /\ \A comp_id \in CompIds, store_name \in {"count", "value"}, value \in {0, 2} :
              HandleStoreSet(comp_id, store_name, value) =>
                  IF <<comp_id, store_name>> \in DOMAIN store_update_handlers
                  THEN /\ objs' = objs
                       /\ tasks'[Len(tasks')] =
                              Task("update", NoneInt, comp_id, store_name, value)
                  ELSE comp_id \in DOMAIN components =>
                           objs'[components[comp_id]].state[store_name] = value]_vars

\* the client set a Slider's value to 2 and the handler's answer, 1, is what
\* the state holds
C24_Witness ==
    /\ slast.op = "run-update"
    /\ slast.raised = NoneVal
    /\ \E c \in DOMAIN components :
           /\ objs[components[c]].cls = "Slider"
           /\ "value" \in DOMAIN objs[components[c]].state
           /\ objs[components[c]].state["value"] = 1

\* C26: after add_component the component's state maps every declared
\* property to the value supplied in props, or to the declared default when
\* none was supplied, which is what the app-state snapshot shows.
C26_StateHoldsEveryDeclaredProperty ==
    [][\A comp_id \in CompIds, parent_id \in ParentIds,
          comp_type \in {"Counter", "Slider"}, props \in PropsSent :
           HandleAddComponent(comp_id, parent_id, comp_type, props) =>
               LET state == objs'[components'[comp_id]].state
                   prop == ComponentMap[comp_type].prop
               IN  /\ prop \in DOMAIN state
                   /\ state[prop] = IF prop \in DOMAIN props THEN props[prop]
                                    ELSE ComponentMap[comp_type].default]_vars

\* C29: component ids are unique in a session: an add-component for an id
\* that is already in the table leaves the earlier object with no handler
\* registered in the session and in no child list.
C29_ReAddReplacesEarlierObject ==
    [][\A comp_id \in CompIds, parent_id \in ParentIds,
          comp_type \in {"Counter", "Slider"}, props \in PropsSent :
           (/\ comp_id \in DOMAIN components
            /\ HandleAddComponent(comp_id, parent_id, comp_type, props)) =>
               LET old == components[comp_id]
               IN  /\ \A e \in DOMAIN event_handlers' :
                          \A i \in 1..Len(event_handlers'[e]) :
                              event_handlers'[e][i][1] # old
                   /\ \A o \in 1..Len(objs') :
                          \A i \in 1..Len(objs'[o].children) :
                              objs'[o].children[i] # old]_vars


----------------------------------------------------------------------------
(* Claims about rooms and registration *)

\* C25: leave_room is the inverse of join_room.  When a subscriber that is
\* individually subscribed to a topic of a channel (a member of a topic set
\* and of no room of the channel) joins a room, the leave_room of the same
\* subscriber, channel and room applied to the state after the join gives
\* back the room's members and the channel's topic subscriber sets of before
\* the join.
C25_LeaveRoomUndoesJoinRoom ==
    [][\A sid \in Sids, c \in Channels, r \in Rooms :
          (/\ JoinRoom(sid, c, r)
           /\ \E t \in TopicKeys(subscribers, c) : sid \in subscribers[c][t]
           /\ \A q \in Rooms : sid \notin RoomMembers(room_subscriptions, c, q))
          => LET left == DropFromTopics(subscribers', c, sid)
                 rooms == WithRoom(room_subscriptions', c, r,
                                   RoomMembers(room_subscriptions', c, r) \ {sid})
             IN  /\ \A t \in AllTopics : SubsOf(left, c, t) = SubsOf(subscribers, c, t)
                 /\ \A q \in Rooms :
                        RoomMembers(rooms, c, q) = RoomMembers(room_subscriptions, c, q)]_vars

\* C28: register is idempotent per id.  A step that registers a queue for a
\* subscriber id that is already registered (add_component registers the new
\* component's queue under the session and component id) leaves the
\* message-queue table as it was, so the id stays bound to the first queue.
C28_RegisterAgainKeepsFirstQueue ==
    [][\A comp_id \in CompIds, parent_id \in ParentIds,
          comp_type \in DOMAIN ComponentMap, props \in PropsSent :
          (/\ HandleAddComponent(comp_id, parent_id, comp_type, props)
           /\ ComponentSid(comp_id) \in DOMAIN message_queues)
          => message_queues' = message_queues]_vars


----------------------------------------------------------------------------
(* Claims about the end of a connection *)

\* C21: every exit of a session's receive loop, by the remote close or by an
\* exception, puts exactly one $session_disconnect event on the session's
\* event queue and calls SocketService.disconnect exactly once; the
\* $session_connect event of the same run of the loop was put before it.
\* With no event taken off the queue yet, the queue is the log of the puts:
\* the events of run n are the entries 2n - 1 and 2n.
C21_LoopExitQueuesOneDisconnect ==
    [][/\ (handling /\ ~handling')
          => /\ event_queue' = Append(event_queue, "$session_disconnect")
             /\ ws.disconnects = 0 /\ ws'.disconnects = 1
             /\ Len(event_queue') = 2 * ws.id
             /\ event_queue'[2 * ws.id - 1] = "$session_connect"
       /\ (handling /\ handling')
          => /\ event_queue' = event_queue
             /\ ws'.disconnects = 0
       /\ (~handling /\ ~handling')
          => /\ event_queue' = event_queue
             /\ ws'.disconnects = ws.disconnects]_vars

\* a second connection's loop was ended by an exception
C21_Witness ==
    /\ ws.id = 2
    /\ ws.state = "closed"
    /\ slast.raised = "ValueError"
    /\ event_queue = <<"$session_connect", "$session_disconnect",
                       "$session_connect", "$session_disconnect">>
    /\ ws.disconnects = 1


----------------------------------------------------------------------------
(* Claims about services and the tasks of handlers *)

\* C22: every future returned by a call through a service method proxy is
\* completed exactly once when the task scheduled for the call has run:
\* with the result when the method returns, with the error when the method
\* is absent or raises or the service is not in the executor map.
C22_EveryCallCompletesItsFuture ==
    \A i \in DOMAIN calls :
        calls[i].task # "scheduled"
        => /\ calls[i].future # "pending"
           /\ calls[i].sets = 1
           /\ calls[i].future = "result"
                  <=> (/\ calls[i].service \in DOMAIN service_executors
                       /\ MethodOutcome(calls[i].service, calls[i].method) = NoneVal)

\* C30: the task that runs a service method called through a component's
\* proxy is in the session's task registry for as long as it has not run.
C30_ServiceCallTaskInSessionRegistry ==
    \A i \in DOMAIN calls :
        calls[i].task = "scheduled"
        => \E j \in DOMAIN tasks : tasks[j].kind = "service" /\ tasks[j].req_id = i

\* C27: every service is initialized exactly once; when the transport accepts
\* connections every configured service and SocketService has its executor,
\* its queue registered at the broker, its receive loop started and its init
\* hook run; while the server serves no executor is replaced, removed or
\* initialized again.
C27_ServicesInitializedOnceBeforeServing ==
    [][/\ \A n \in DOMAIN service_executors' : service_executors'[n].inits <= 1
       /\ serve_pc'.at = "serving"
          => /\ "SocketService" \in service_configs'
             /\ DOMAIN service_executors' = service_configs'
             /\ \A n \in service_configs' :
                    /\ service_executors'[n] =
                           [inits |-> 1, receiver |-> "running", hooks |-> 1]
                    /\ n \in DOMAIN message_queues'
                    /\ message_queues'[n] = ServiceQueue(n)
       /\ sessions' # {} => serve_pc'.at = "serving"
       /\ serve_pc.at = "serving"
          => /\ service_executors' = service_executors
             /\ service_configs' = service_configs
             /\ serve_pc' = serve_pc]_vars

\* a connection was accepted by a server configured with the chat service,
\* and a call through the proxy has run
C27_Witness ==
    /\ ws.id = 2
    /\ handling
    /\ service_configs = {"chat", "SocketService"}
    /\ service_executors["chat"].inits = 1
    /\ calls # <<>>
    /\ calls[1].future = "result"

\* C23: a failing handler is contained.  When the task of an event handler
\* or of an RPC raises, the event dispatcher and the receive loop and the
\* sender go on as they were, the tasks of the other handlers started for
\* the same event stay scheduled, and the events still queued stay queued
\* for the dispatcher, which no step ever stops.
C23_FailingHandlerIsContained ==
    [][/\ dispatcher_task' = "running"
       /\ (/\ tasks # <<>>
           /\ Head(tasks).kind \in {"event", "rpc"}
           /\ RunTask
           /\ slast'.raised # NoneVal)
          => /\ tasks' = Tail(tasks)
             /\ event_queue' = event_queue
             /\ event_handlers' = event_handlers
             /\ handling' = handling
             /\ sender_task' = sender_task]_vars

\* the first of two handlers of an event has raised, the second is still
\* scheduled and a later event waits for the dispatcher
C23_Witness ==
    /\ slast.op = "run-handler"
    /\ slast.raised = "HandlerError"
    /\ tasks # <<>>
    /\ Head(tasks).kind = "event"
    /\ event_queue = <<"$session_disconnect">>
    /\ dispatcher_task = "running"


----------------------------------------------------------------------------
(* Claims about two rooms and two channels *)

\* C34: a subscriber that is a member of two rooms of a channel and leaves
\* one of them stays a member of the other, and a publish to the other room
\* on a topic it was subscribed to still delivers to it.
C34_LeaveOneRoomKeepsTheOther ==
    [][\A r \in AllRooms, other \in AllRooms, t \in AllTopics :
          (/\ LeaveRoom("s1", "c1", r)
           /\ other # r
           /\ "s1" \in RoomMembers(room_subscriptions, "c1", r)
           /\ "s1" \in RoomMembers(room_subscriptions, "c1", other)
           /\ "s1" \in SubsOf(subscribers, "c1", t)
           /\ "s1" \in DOMAIN message_queues)
          => /\ "s1" \in RoomMembers(room_subscriptions', "c1", other)
             /\ "s1" \in PublishTargets(subscribers', room_subscriptions',
                                        message_queues', "c1", t, {other}, {}, {})]_vars

\* C35: quit(sid, channel) for one channel leaves the subscriber's topic
\* subscriptions and room memberships on every other channel as they were,
\* and a publish on another channel on a topic the subscriber has there
\* still delivers to its queue.
C35_ScopedQuitLeavesOtherChannels ==
    [][\A c \in RoomChannels, d \in RoomChannels, t \in AllTopics :
          (/\ Quit("s1", c)
           /\ d # c
           /\ "s1" \in SubsOf(subscribers, d, t)
           /\ "s1" \in DOMAIN message_queues)
          => /\ \A u \in AllTopics : SubsOf(subscribers', d, u) = SubsOf(subscribers, d, u)
             /\ \A r \in AllRooms :
                    RoomMembers(room_subscriptions', d, r)
                        = RoomMembers(room_subscriptions, d, r)
             /\ "s1" \in PublishTargets(subscribers', room_subscriptions',
                                        message_queues', d, t, {}, {}, {})]_vars


----------------------------------------------------------------------------
(* Claims about messages that fail and about teardown *)

\* C39: a well-formed message that names something absent (add-component
\* with an unknown parent or an unknown component type, store-set for a
\* component that is not in the table) does not end the receive loop: no
\* $session_disconnect is queued and the loop goes on receiving.
C39_AbsentNameKeepsLoopRunning ==
    [][\A comp_id \in CompIds, parent_id \in ParentIds, comp_type \in CompTypes,
          props \in PropsSent, store_name \in {"count", "value"},
          value \in StoreValues :
          (/\ \/ HandleAddComponent(comp_id, parent_id, comp_type, props)
              \/ HandleStoreSet(comp_id, store_name, value)
           /\ slast'.raised = "KeyError")
          => /\ handling'
             /\ event_queue' = event_queue
             /\ ws'.state = "open"]_vars

\* C40: a failed add_component is atomic: the session's event-handler and
\* store-update-handler tables, the broker's queue and subscription tables
\* and every child list are as before the call, and no receive task of the
\* component that was not added is running.
C40_FailedAddComponentIsAtomic ==
    [][\A comp_id \in CompIds, parent_id \in ParentIds, comp_type \in CompTypes,
          props \in PropsSent :
          (/\ HandleAddComponent(comp_id, parent_id, comp_type, props)
           /\ slast'.raised # NoneVal)
          => /\ event_handlers' = event_handlers
             /\ store_update_handlers' = store_update_handlers
             /\ message_queues' = message_queues
             /\ subscribers' = subscribers
             /\ room_subscriptions' = room_subscriptions
             /\ \A o \in DOMAIN objs : objs'[o].children = objs[o].children
             /\ \A o \in DOMAIN objs' \ DOMAIN objs : objs'[o].receiver # "running"]_vars

\* C31: after destroy_component(id) has completed, the task registry of the
\* component is empty: its receive loop task is no longer running.
C31_DestroyStopsReceiver ==
    [][(/\ DestroyTaskRuns
        /\ slast'.op = "run-destroy"
        /\ slast'.raised = NoneVal)
       => objs'[components[Head(tasks).comp_id]].receiver # "running"]_vars


----------------------------------------------------------------------------
(* Claims about what overlaps *)

\* C38: store-set messages for a property with an on_update handler are
\* applied in the order they arrived: once every handler run for the
\* property has returned and no run is waiting to start, the state holds the
\* handler's result for the value that arrived last, whatever the order in
\* which the runs returned.
C38_StoreSetsApplyInArrivalOrder ==
    \A c \in DOMAIN components :
        LET runs == SelectSeq(update_runs,
                              LAMBDA r : r.task.comp_id = c /\ r.task.name = "value")
        IN  (/\ Len(objs) = 1
             /\ runs # <<>>
             /\ \A i \in DOMAIN runs : runs[i].done
             /\ \A i \in DOMAIN tasks : tasks[i].kind # "update")
            => /\ "value" \in DOMAIN objs[components[c]].state
               /\ objs[components[c]].state["value"]
                      = UpdateHandler(runs[Len(runs)].task.value)


\* C32: no session event handler and no service-event handler of a component
\* is invoked before the hooks that add_component awaits for the component
\* have completed: while the call waits in a hook, no handler task of the
\* component runs and its receive loop takes no event off its queue.
C32_NoHandlerBeforeHooksComplete ==
    [][/\ (/\ tasks # <<>>
           /\ Head(tasks).kind = "event"
           /\ RunTask)
          => ~(adding.at # "none" /\ Head(tasks).value = adding.oid)
       /\ \A q \in AllQueues :
              Receive(q) => ~(adding.at # "none" /\ q = adding.oid)]_vars


\* C37: a session has at most one live connection at a time: the session
\* never has a loop on a replaced connection while its loop on the newer
\* connection runs, and the end of the loop of an older connection queues no
\* $session_disconnect while the newer connection is open.
C37_OneLiveConnection ==
    [][/\ ~(handling' /\ old_loops' > 0)
       /\ (old_loops' < old_loops /\ ws'.state = "open")
              => event_queue' = event_queue]_vars


\* C36: two distinct sessions never share a broker subscriber id, under
\* every session identity strategy: no two component queues registered under
\* one subscriber id belong to the sessions of different identities (so that
\* neither replaces the other and neither gets the other's events).
C36_SessionsShareNoSubscriberId ==
    \A i, j \in DOMAIN identities.owners :
        identities.owners[i].sid = identities.owners[j].sid
            => identities.owners[i].identity = identities.owners[j].identity


\* C33: every broker operation is one step, and no operation iterates a set
\* or table that is changed during the iteration: publish leaves the
\* subscriber set of its topic as it iterates it, join_room and leave_room
\* leave the topic keys of their channel, and quit leaves the keys of the
\* room table and the topic keys of every channel it cleans.
C33_IteratedTablesKeepTheirKeys ==
    [][/\ last'.op = "publish"
          => SubsOf(subscribers', last'.channel, last'.name)
                 = SubsOf(subscribers, last'.channel, last'.name)
       /\ last'.op \in {"join_room", "leave_room"}
          => TopicKeys(subscribers', last'.channel)
                 = TopicKeys(subscribers, last'.channel)
       /\ last'.op = "quit"
          => /\ DOMAIN room_subscriptions' = DOMAIN room_subscriptions
             /\ \A c \in QuitChannels(room_subscriptions, last'.channel) :
                    TopicKeys(subscribers', c) = TopicKeys(subscribers, c)]_vars

\* a quit of every channel has iterated a room table with a room it emptied
\* and a channel with topics
C33_QuitIteratedRoomsAndTopics ==
    /\ last.op = "quit"
    /\ last.channel = NoneVal
    /\ \E k \in DOMAIN room_subscriptions :
           /\ room_subscriptions[k] = {}
           /\ TopicKeys(subscribers, k[1]) # {}

====
